---- MODULE Spec2Model ----
(***************************************************************************)
(* State-machine model of qiskit.circuit.parametervector.ParameterVector.  *)
(*                                                                         *)
(* One vector instance is modelled.  Its slots (_name, _root_uuid,         *)
(* _params) are variables; every method is one action.  The 128-bit UUID   *)
(* space is scaled down to IdBits bits, keeping the one structural fact    *)
(* about uuid4() that matters for the arithmetic: the version field below  *)
(* the leading random bits has its top bit clear, so a generated root is   *)
(* always far (2^79 in the real layout) below the top of the space.        *)
(* Python lists are 0-based, TLA+ sequences 1-based: the list item at      *)
(* position p is params[p + 1].                                            *)
(***************************************************************************)
EXTENDS Integers, Sequences, FiniteSets

\* ---------------------------------------------------------------- bounds
IdBits == 5        \* scaled width of a UUID (128 in the program)
MaxLen == 3        \* largest length passed to __init__ / resize
MaxNeg == 1        \* most negative length / key passed is -MaxNeg
MaxObj == 5        \* cap on the number of element objects ever allocated

Names == {"theta", "phi"}

IdSpace == 2 ^ IdBits

Lengths == (0 - MaxNeg) .. MaxLen
Keys    == (0 - MaxNeg - 1) .. (MaxLen + 1)

\* ------------------------------------------------------------ UUID values
\* uuid4(): random bits with the version field fixed; in the scaled layout
\* the leading bit is random, the next bit (top bit of the version nibble,
\* bit 79 of 128) is 0, the remaining bits are random.
uuid4 == { u \in 0 .. (IdSpace - 1) : (u \div (2 ^ (IdBits - 2))) % 2 = 0 }

\* UUID(int=x) raises ValueError unless 0 <= x < 1 << 128.
UUID_ok(x) == 0 <= x /\ x < IdSpace

\* Variant: offset counted from 1.
ElementUuidIntShifted(root_uuid_int, i) == root_uuid_int + i + 1

\* The integer handed to UUID(int=...) for the element of index i.
ElementUuidInt(root_uuid_int, i) == root_uuid_int + i

\* ---------------------------------------------------------------- elements
\* ParameterVectorElement(vector, index, uuid): an immutable value holding
\* the index and uuid it was built from; obj is the object instance.
ParameterVectorElement(i, u, o) == [index |-> i, uuid |-> u, obj |-> o]

NoElem == [index |-> 0 - 1, uuid |-> 0 - 1, obj |-> 0 - 1]

\* Element equality as seen by list.index: same object, or __eq__ (same uuid).
ElemEq(a, b) == a.obj = b.obj \/ a.uuid = b.uuid

\* Variant: growth numbers its elements from 0 instead of the current length.
NewElementsFromZero(root_uuid_int, lo, hi, firstObj) ==
    IF hi > lo
    THEN [j \in 1 .. (hi - lo) |->
            ParameterVectorElement(j - 1,
                                   ElementUuidInt(root_uuid_int, j - 1),
                                   firstObj + j - 1)]
    ELSE << >>

\* Variant: a fresh identity per allocation instead of root + index.
NewElementsPerObject(root_uuid_int, lo, hi, firstObj) ==
    IF hi > lo
    THEN [j \in 1 .. (hi - lo) |->
            ParameterVectorElement(lo + j - 1,
                                   (root_uuid_int + firstObj + j - 1) % IdSpace,
                                   firstObj + j - 1)]
    ELSE << >>

\* [ParameterVectorElement(self, i, UUID(int=root_uuid_int + i))
\*      for i in range(lo, hi)], objects numbered from firstObj.
NewElements(root_uuid_int, lo, hi, firstObj) ==
    IF hi > lo
    THEN [j \in 1 .. (hi - lo) |->
            ParameterVectorElement(lo + j - 1,
                                   ElementUuidInt(root_uuid_int, lo + j - 1),
                                   firstObj + j - 1)]
    ELSE << >>

\* The comprehension raises (and builds nothing) when some UUID(int=...)
\* in range(lo, hi) is out of range.
NewElementsOk(root_uuid_int, lo, hi) ==
    \A i \in lo .. (hi - 1) : UUID_ok(ElementUuidInt(root_uuid_int, i))

Max(a, b) == IF a > b THEN a ELSE b
Min(a, b) == IF a < b THEN a ELSE b

\* ------------------------------------------------------------ list helpers
\* Variant: del lst[n + 1:].
DelFromPlusOne(lst, n) ==
    SubSeq(lst, 1, Min(Len(lst), IF n >= 0 THEN n + 1 ELSE Max(Len(lst) + n, 0)))

\* del lst[n:]  (Python slice deletion: a negative start counts from the end)
DelFrom(lst, n) ==
    SubSeq(lst, 1, IF n >= 0 THEN Min(n, Len(lst)) ELSE Max(Len(lst) + n, 0))

\* Variant: negative keys rejected.
PyListPosNoNegative(lst, key) ==
    IF 0 <= key /\ key < Len(lst) THEN key ELSE 0 - 1

\* lst[key]: position of the item returned, or -1 for IndexError.
PyListPos(lst, key) ==
    IF 0 <= key /\ key < Len(lst) THEN key
    ELSE IF key < 0 /\ key >= 0 - Len(lst) THEN Len(lst) + key
    ELSE 0 - 1

\* lst.index(value): first position whose item equals value, -1 for ValueError.
RECURSIVE ListIndexFrom(_, _, _)
ListIndexFrom(lst, value, p) ==
    IF p >= Len(lst) THEN 0 - 1
    ELSE IF ElemEq(lst[p + 1], value) THEN p
    ELSE ListIndexFrom(lst, value, p + 1)

\* Variant: 1-based result.
ListIndexOneBased(lst, value) ==
    IF ListIndexFrom(lst, value, 0) < 0 THEN 0 - 1
    ELSE ListIndexFrom(lst, value, 0) + 1

ListIndex(lst, value) == ListIndexFrom(lst, value, 0)

\* ------------------------------------------------------------------- state
VARIABLES
    constructed,   \* the instance exists (__init__ or __setstate__ completed)
    name,          \* self._name
    root_uuid,     \* self._root_uuid.int
    params,        \* self._params
    nextObj,       \* number of element objects allocated so far
    held,          \* the element the caller last obtained from pv[key]
    op,            \* the last call: [name, arg] and the length it found
    ret,           \* its outcome: [exc, val]
    rt,            \* observer of the docstring scenario of resize
    pickled        \* a persisted triple (name, params, root_uuid), or NoState

vars == << constructed, name, root_uuid, params, nextObj, held, op, ret, rt,
           pickled >>

Ok(v)     == [exc |-> "none", val |-> v]
Raise(e)  == [exc |-> e, val |-> 0 - 1]
NoRt      == [phase |-> "none", k |-> 0 - 1, L |-> 0 - 1, m |-> 0,
              uuid |-> 0 - 1, obj |-> 0 - 1]
NoState   == [name |-> "", params |-> << >>, root |-> 0 - 1]

Init ==
    /\ constructed = FALSE
    /\ name = ""
    /\ root_uuid = 0 - 1
    /\ params = << >>
    /\ nextObj = 0
    /\ held = NoElem
    /\ op = [name |-> "none", arg |-> 0, len0 |-> 0]
    /\ ret = Ok(0)
    /\ rt = NoRt
    /\ pickled = NoState

\* ------------------------------------------------------- scenario observer
\* Follows the docstring scenario of resize: elt = pv[k]; pv.resize(m) with
\* m <= k; pv.resize(L) with L the length at capture.
RtAfterGetItem(key, p) ==
    IF p >= 0 /\ key >= 0
    THEN [phase |-> "captured", k |-> p, L |-> Len(params), m |-> 0,
          uuid |-> params[p + 1].uuid, obj |-> params[p + 1].obj]
    ELSE NoRt

RtAfterResize(length, raised) ==
    IF raised THEN NoRt
    ELSE IF rt.phase = "captured" /\ length <= rt.k
         THEN [rt EXCEPT !.phase = "shrunk", !.m = length]
    ELSE IF rt.phase = "shrunk" /\ length = rt.L
         THEN [rt EXCEPT !.phase = "regrown"]
    ELSE NoRt

\* ------------------------------------------------------------------ actions
\* ParameterVector.__init__(name, length)
Construct(n, length) ==
    /\ ~constructed
    /\ nextObj + Max(length, 0) <= MaxObj
    /\ \E u \in uuid4 :
         IF NewElementsOk(u, 0, length)
         THEN /\ constructed' = TRUE
              /\ name' = n
              /\ root_uuid' = u
              /\ params' = NewElements(u, 0, length, nextObj)
              /\ nextObj' = nextObj + Max(length, 0)
              /\ ret' = Ok(0)
         ELSE /\ ret' = Raise("ValueError")
              /\ UNCHANGED << constructed, name, root_uuid, params, nextObj >>
    /\ op' = [name |-> "__init__", arg |-> length, len0 |-> 0]
    /\ UNCHANGED << held, rt, pickled >>

\* Variant: every element is rebuilt on each resize.
ResizeParamsRebuild(lst, root_uuid_int, length, firstObj) ==
    IF length >= 0
    THEN NewElements(root_uuid_int, 0, length, firstObj)
    ELSE DelFrom(lst, length)

\* The list self._params holds after a resize(length) that does not raise.
ResizeParams(lst, root_uuid_int, length, firstObj) ==
    IF length > Len(lst)
    THEN lst \o NewElements(root_uuid_int, Len(lst), length, firstObj)
    ELSE DelFrom(lst, length)

\* ParameterVector.resize(length)
Resize(length) ==
    /\ constructed
    /\ nextObj + Max(length - Len(params), 0) <= MaxObj
    /\ LET raised == length > Len(params)
                     /\ ~NewElementsOk(root_uuid, Len(params), length)
       IN  /\ IF raised
              THEN /\ ret' = Raise("ValueError")
                   /\ UNCHANGED << params, nextObj >>
              ELSE /\ params' = ResizeParams(params, root_uuid, length, nextObj)
                   /\ nextObj' = nextObj + Max(length - Len(params), 0)
                   /\ ret' = Ok(0)
           /\ rt' = RtAfterResize(length, raised)
    /\ op' = [name |-> "resize", arg |-> length, len0 |-> Len(params)]
    /\ UNCHANGED << constructed, name, root_uuid, held, pickled >>

\* ParameterVector.__getitem__(key), key an integer
GetItem(key) ==
    /\ constructed
    /\ LET p == PyListPos(params, key)
       IN  /\ IF p >= 0
              THEN /\ held' = params[p + 1]
                   /\ ret' = Ok(p)
              ELSE /\ ret' = Raise("IndexError")
                   /\ UNCHANGED held
           /\ rt' = RtAfterGetItem(key, p)
    /\ op' = [name |-> "__getitem__", arg |-> key, len0 |-> Len(params)]
    /\ UNCHANGED << constructed, name, root_uuid, params, nextObj, pickled >>

\* ParameterVector.index(value), value an element the caller holds
Index ==
    /\ constructed
    /\ held # NoElem
    /\ LET p == ListIndex(params, held)
       IN  ret' = IF p >= 0 THEN Ok(p) ELSE Raise("ValueError")
    /\ op' = [name |-> "index", arg |-> held.index, len0 |-> Len(params)]
    /\ UNCHANGED << constructed, name, root_uuid, params, nextObj, held, rt,
                    pickled >>

\* ParameterVector.__len__()
LenOp ==
    /\ constructed
    /\ ret' = Ok(Len(params))
    /\ op' = [name |-> "__len__", arg |-> 0, len0 |-> Len(params)]
    /\ UNCHANGED << constructed, name, root_uuid, params, nextObj, held, rt,
                    pickled >>

\* ------------------------------------------------------------ persistence
\* ParameterVectorElement.__getstate__(): the arguments that rebuild it.
ElementGetState(e) == [index |-> e.index, uuid |-> e.uuid]

\* Variant: identities and indices re-derived from the root and the position.
SetStateParamsRederived(payloads, root_uuid_int, firstObj) ==
    [j \in 1 .. Len(payloads) |->
        ParameterVectorElement(j - 1, ElementUuidInt(root_uuid_int, j - 1) % IdSpace,
                               firstObj + j - 1)]

\* [ParameterVectorElement(*p) for p in params]
SetStateParams(payloads, root_uuid_int, firstObj) ==
    [j \in 1 .. Len(payloads) |->
        ParameterVectorElement(payloads[j].index, payloads[j].uuid,
                               firstObj + j - 1)]

\* Persisted triples a consumer may be handed: any name, a root anywhere in
\* the 128-bit space, and per-element payloads whose identity matches
\* root + position, repeats the root, or is unrelated (0).
MaxPersist == 2

PersistedRoots == {1, IdSpace - 1}

PayloadsAt(r, pos) ==
    { [index |-> pos, uuid |-> u] : u \in { x \in {r + pos, r, 0} : UUID_ok(x) } }

RECURSIVE PersistedParams(_, _)
PersistedParams(r, n) ==
    IF n = 0 THEN { << >> }
    ELSE PersistedParams(r, n - 1)
         \cup { Append(ps, a) : ps \in { q \in PersistedParams(r, n - 1) : Len(q) = n - 1 },
                                a \in PayloadsAt(r, n - 1) }

PersistedStates ==
    UNION { { [name |-> n, params |-> ps, root |-> r] :
                n \in Names, ps \in PersistedParams(r, MaxPersist) } :
            r \in PersistedRoots }

\* ParameterVector.__getstate__()
GetState ==
    /\ constructed
    /\ pickled' = [name |-> name,
                   params |-> [j \in 1 .. Len(params) |-> ElementGetState(params[j])],
                   root |-> root_uuid]
    /\ ret' = Ok(Len(params))
    /\ op' = [name |-> "__getstate__", arg |-> 0, len0 |-> Len(params)]
    /\ UNCHANGED << constructed, name, root_uuid, params, nextObj, held, rt >>

\* A persisted triple arrives from storage or from another producer, for the
\* instance pickle makes with __new__ (no __init__).
Receive(state) ==
    /\ ~constructed
    /\ pickled = NoState
    /\ pickled' = state
    /\ UNCHANGED << constructed, name, root_uuid, params, nextObj, held, op,
                    ret, rt >>

\* ParameterVector.__setstate__(state), state being the triple in flight
SetState ==
    /\ pickled # NoState
    /\ nextObj + Len(pickled.params) <= MaxObj
    /\ constructed' = TRUE
    /\ name' = pickled.name
    /\ root_uuid' = pickled.root
    /\ params' = SetStateParams(pickled.params, pickled.root, nextObj)
    /\ nextObj' = nextObj + Len(pickled.params)
    /\ ret' = Ok(0)
    /\ rt' = NoRt
    /\ op' = [name |-> "__setstate__", arg |-> Len(pickled.params),
              len0 |-> Len(params)]
    /\ pickled' = NoState
    /\ UNCHANGED held

\* One caller: a triple taken with __getstate__ or received is handed to
\* __setstate__ before anything else is called.
Next ==
    \/ \E n \in Names, length \in Lengths : Construct(n, length)
    \/ pickled = NoState /\ \E length \in Lengths : Resize(length)
    \/ pickled = NoState /\ \E key \in Keys : GetItem(key)
    \/ pickled = NoState /\ Index
    \/ pickled = NoState /\ LenOp
    \/ pickled = NoState /\ GetState
    \/ SetState

\* The vector's own life: construction, its methods, and pickling of its
\* own state.
Spec == Init /\ [][Next]_vars

NextRehydrate ==
    \/ Next
    \/ \E state \in PersistedStates : Receive(state)

\* The same, with persisted triples that also come from elsewhere.
SpecRehydrate == Init /\ [][NextRehydrate]_vars

\* ------------------------------------------------------------- properties
Live == 0 .. (Len(params) - 1)

\* C1: after construction and any sequence of resize calls, the element at
\* every position i has identity root_uuid + i.
Determinism ==
    constructed => \A i \in Live : params[i + 1].uuid = root_uuid + i

DeterminismWitness ==
    /\ op.name = "resize"
    /\ Len(params) = MaxLen
    /\ nextObj > MaxLen
    /\ params[1].obj = 0

\* C2: capture e = pv[k] at length L, resize(m) with m <= k, resize(L): the
\* element now at k has e's identity, and for m >= 0 it is a new object.
ShrinkGrowRoundTrip ==
    rt.phase = "regrown" =>
        /\ Len(params) = rt.L
        /\ PyListPos(params, rt.k) = rt.k
        /\ params[rt.k + 1].uuid = rt.uuid
        /\ rt.m >= 0 => params[rt.k + 1].obj # rt.obj

ShrinkGrowWitness ==
    /\ rt.phase = "regrown"
    /\ rt.k >= 1
    /\ rt.m >= 0
    /\ rt.m < rt.k

\* C3: resize(n) and construction with a negative length fail with an
\* invalid-argument error (ValueError), and the failed resize leaves the
\* vector's length and elements unchanged.
NegativeLengthRejected ==
    [][ (op'.name \in {"resize", "__init__"} /\ op'.arg < 0)
            => /\ ret'.exc = "ValueError"
               /\ params' = params
               /\ constructed' = constructed ]_vars

\* C4: after resize(n) with n >= 0 the length is n: growth appends exactly
\* n - len elements, shrinking keeps exactly the first n, and pv[j] raises
\* for every j >= n.
ResizePostcondition ==
    [][ (op'.name = "resize" /\ op'.arg >= 0)
            => /\ ret'.exc = "none"
               /\ Len(params') = op'.arg
               /\ op'.arg >= Len(params)
                    => SubSeq(params', 1, Len(params)) = params
               /\ op'.arg <= Len(params)
                    => params' = SubSeq(params, 1, op'.arg)
               /\ \A j \in op'.arg .. (MaxLen + 1) :
                    PyListPos(params', j) < 0 ]_vars

ResizePostWitness ==
    /\ op.name = "resize"
    /\ op.arg >= 1
    /\ op.arg < op.len0
    /\ Len(params) = op.arg
    /\ ret.exc = "none"

\* C5: after construction and any sequence of resize calls, the element at
\* every position i has stored index i.
IndexDense ==
    \A i \in Live : params[i + 1].index = i

IndexDenseWitness ==
    /\ op.name = "resize"
    /\ op.len0 >= 1
    /\ op.arg > op.len0
    /\ Len(params) = op.arg
    /\ params[Len(params)].obj > params[1].obj + Len(params) - 1

\* C6: resize(n), n >= 0, leaves the name, the root identity and the
\* (index, identity) of every element below min(n, old length) unchanged;
\* resize(len) changes nothing and replaces no element.
ResizeFrame ==
    [][ (op'.name = "resize" /\ op'.arg >= 0)
            => /\ name' = name
               /\ root_uuid' = root_uuid
               /\ Len(params') >= Min(op'.arg, Len(params))
               /\ \A i \in 1 .. Min(op'.arg, Len(params)) :
                    /\ params'[i].index = params[i].index
                    /\ params'[i].uuid = params[i].uuid
               /\ op'.arg = Len(params) => params' = params ]_vars

ResizeFrameWitness ==
    /\ op.name = "resize"
    /\ op.arg = op.len0
    /\ op.arg >= 2
    /\ Len(params) = op.arg

\* C7 as stated: pv[i] raises IndexError for every i outside [0, len),
\* negative i included, returns the element at i otherwise, and changes
\* nothing of the vector.
BoundsCheckedAccess ==
    [][ op'.name = "__getitem__"
            => /\ UNCHANGED << name, root_uuid, params >>
               /\ IF op'.arg \in Live
                  THEN ret'.exc = "none" /\ held' = params[op'.arg + 1]
                  ELSE ret'.exc = "IndexError" ]_vars

\* C7 amended: pv[i] raises IndexError for every i outside [-len, len),
\* returns the element at i for 0 <= i < len and the element at len + i for
\* -len <= i < 0, and changes nothing of the vector.
SequenceAccess ==
    [][ op'.name = "__getitem__"
            => /\ UNCHANGED << name, root_uuid, params >>
               /\ IF op'.arg \in Live
                  THEN ret'.exc = "none" /\ held' = params[op'.arg + 1]
                  ELSE IF op'.arg < 0 /\ op'.arg + Len(params) \in Live
                  THEN ret'.exc = "none"
                       /\ held' = params[Len(params) + op'.arg + 1]
                  ELSE ret'.exc = "IndexError" /\ held' = held ]_vars

SequenceAccessWitness ==
    /\ op.name = "__getitem__"
    /\ op.arg < 0
    /\ ret.exc = "none"
    /\ held = params[Len(params) + op.arg + 1]

WrappingIdentity ==
    (op.name \in {"resize", "__init__"} /\ op.arg >= 0) =>
        /\ ret.exc = "none"
        /\ Len(params) = op.arg
        /\ \A i \in op.len0 .. (op.arg - 1) :
              params[i + 1].uuid = (root_uuid + i) % IdSpace

\* C10: index(e) returns the smallest position whose element equals e and
\* raises when there is none; so index(pv[i]) = i at every position, and
\* the index of a truncated, not regrown element raises.
Matches(e) == { p \in Live : params[p + 1].uuid = e.uuid }

IndexOfLookup ==
    /\ \A i \in Live : ListIndex(params, params[i + 1]) = i
    /\ op.name = "index" =>
          IF Matches(held) = { }
          THEN ret.exc = "ValueError"
          ELSE /\ ret.exc = "none"
               /\ ret.val \in Matches(held)
               /\ \A p \in Matches(held) : ret.val <= p
    /\ (op.name = "index" /\ held.index >= Len(params)) => ret.exc = "ValueError"

IndexOfWitness ==
    /\ op.name = "index"
    /\ ret.exc = "ValueError"
    /\ Len(params) >= 1
    /\ held.index >= Len(params)

====
